---- MODULE Spec2Model ----
(***************************************************************************)
(* Model of package api of bytom: the transaction builder front end        *)
(* (buildSingle), the gas estimator (EstimateTxGas) and the peg-in claim   *)
(* handler (claimPeginTx) of src/api/transact.go.                          *)
(*                                                                         *)
(* Three specifications share the module:                                  *)
(*   Spec       one claimPeginTx request, one action per step of the       *)
(*              handler (every call to a collaborator is a step);          *)
(*   SpecBuild  buildSingle applied to a bounded set of build requests;    *)
(*   SpecGas    EstimateTxGas applied to a bounded set of templates.       *)
(***************************************************************************)
EXTENDS Integers, Sequences, FiniteSets, TLC

(***************************************************************************)
(* int64 arithmetic.  TLC's integers are 32 bits wide, so an integer of    *)
(* the program is kept in two's complement as six limbs of 16 bits, least  *)
(* significant limb first: 96 bits, wide enough to hold the exact result   *)
(* of every operation of the estimator on int64 operands.  An int64 is     *)
(* such a number whose two top limbs only extend the sign; Go's int64      *)
(* operations wrap modulo 2^64 (Wrap64).  Go's int is 64 bits wide on the  *)
(* platforms the node runs on.                                             *)
(***************************************************************************)
Limb == 2 ^ 16

RECURSIVE AddAt(_, _, _, _)
AddAt(x, y, i, c) ==
  IF i > Len(x) THEN <<>>
  ELSE LET s == x[i] + y[i] + c
       IN  <<s % Limb>> \o AddAt(x, y, i + 1, s \div Limb)

\* x * c for a small factor 0 <= c < 2^15
RECURSIVE MulAt(_, _, _, _)
MulAt(x, c, i, carry) ==
  IF i > Len(x) THEN <<>>
  ELSE LET s == x[i] * c + carry
       IN  <<s % Limb>> \o MulAt(x, c, i + 1, s \div Limb)

\* x \div c for x >= 0 and a small divisor 0 < c < 2^15
RECURSIVE DivAt(_, _, _, _)
DivAt(x, c, i, r) ==
  IF i = 0 THEN <<>>
  ELSE LET cur == r * Limb + x[i]
       IN  DivAt(x, c, i - 1, cur % c) \o <<cur \div c>>

BigZero == <<0, 0, 0, 0, 0, 0>>
BigOne == <<1, 0, 0, 0, 0, 0>>

BigAdd(a, b) == AddAt(a, b, 1, 0)
BigNeg(a) == AddAt([i \in 1..Len(a) |-> Limb - 1 - a[i]], BigOne, 1, 0)
BigSub(a, b) == BigAdd(a, BigNeg(b))
BigMul(a, c) == MulAt(a, c, 1, 0)
BigDiv(a, c) == DivAt(a, c, Len(a), 0)

IsNeg(a) == a[Len(a)] >= Limb \div 2
BigLess(a, b) == IsNeg(BigSub(a, b))
BigLeq(a, b) == ~BigLess(b, a)
BigAbs(a) == IF IsNeg(a) THEN BigNeg(a) ELSE a

\* a TLC integer as a big integer, and a big integer 0 <= a < 2^31 as a TLC one
OfInt(n) ==
  IF n < 0 THEN BigNeg(<<(0 - n) % Limb, (0 - n) \div Limb, 0, 0, 0, 0>>)
  ELSE <<n % Limb, n \div Limb, 0, 0, 0, 0>>

ToInt(a) == a[1] + a[2] * Limb

\* the int64 an exact integer wraps to: its low 64 bits, sign-extended
Wrap64(a) ==
  LET ext == IF a[4] >= Limb \div 2 THEN Limb - 1 ELSE 0
  IN  <<a[1], a[2], a[3], a[4], ext, ext>>

InInt64(a) == a = Wrap64(a)

MaxInt64 == <<Limb - 1, Limb - 1, Limb - 1, Limb \div 2 - 1, 0, 0>>
MinInt64 == BigNeg(BigAdd(MaxInt64, BigOne))

\* Go's int64 +, - and * (by a small constant): the exact result, wrapped
Add64(a, b) == Wrap64(BigAdd(a, b))
Sub64(a, b) == Wrap64(BigSub(a, b))
Mul64(a, c) == Wrap64(BigMul(a, c))

(***************************************************************************)
(* float64.  float64(x) of an int64 x is the nearest number with a 53-bit  *)
(* significand (ties to even), which is again an integer; the quotient by  *)
(* defaultBaseRate is rounded to 53 bits once more before math.Ceil.       *)
(***************************************************************************)
\* the number of bits of a limb, and of a big integer a >= 0
LimbBits(d) == CHOOSE n \in 0..16 : d < 2 ^ n /\ (n > 0 => d >= 2 ^ (n - 1))

BitLen(a) ==
  IF a = BigZero THEN 0
  ELSE LET top == CHOOSE i \in 1..Len(a) :
                    a[i] # 0 /\ \A j \in (i + 1)..Len(a) : a[j] = 0
       IN  16 * (top - 1) + LimbBits(a[top])

Float64(x) ==
  LET m == BigAbs(x)
      n == BitLen(m)
  IN  IF n <= 53 THEN x
      ELSE LET q    == 2 ^ (n - 53)
               r    == m[1] % q
               down == BigSub(m, OfInt(r))
               up   == BigAdd(down, OfInt(q))
               even == m[1] % (2 * q) < q
               near == IF 2 * r < q \/ (2 * r = q /\ even) THEN down ELSE up
           IN  IF IsNeg(x) THEN BigNeg(near) ELSE near

\* src/api/transact.go:29
defaultBaseRate == 100000

\* a \div defaultBaseRate and a * defaultBaseRate (in two small steps each)
DivBaseRate(a) == BigDiv(BigDiv(a, 100), defaultBaseRate \div 100)
MulBaseRate(a) == BigMul(BigMul(a, 100), defaultBaseRate \div 100)

\* int64(math.Ceil(f / defaultBaseRate)) for a float64 f that holds an integer,
\* |f| <= 2^63.  With k the integer part of |f| / defaultBaseRate, r the
\* remainder and 2^e <= k < 2^(e+1), the float64 quotient is k itself when
\* r / defaultBaseRate is under half a unit in the last place, 2^(e-53), and
\* k + 1 when (defaultBaseRate - r) / defaultBaseRate is; a tie cannot occur
\* (k < 2^47).
CeilQuotient(f) ==
  LET m     == BigAbs(f)
      k     == DivBaseRate(m)
      r     == ToInt(BigSub(m, MulBaseRate(k)))
      e     == BitLen(k) - 1
      slack == IF e < 36 THEN 0 ELSE (defaultBaseRate - 1) \div (2 ^ (53 - e))
      kp    == BigAdd(k, BigOne)
  IN  IF r = 0 THEN (IF IsNeg(f) THEN BigNeg(k) ELSE k)
      ELSE IF IsNeg(f)
           THEN BigNeg(IF defaultBaseRate - r <= slack THEN kp ELSE k)
           ELSE IF r <= slack THEN k ELSE kp

\* int64 * int64(defaultBaseRate)
MulBaseRate64(a) == Wrap64(MulBaseRate(a))

(***************************************************************************)
(* State.  template, gas*: the estimator's input and results; req, env,   *)
(* built: a build request, what the collaborators answer, and             *)
(* buildSingle's result; the rest: one claimPeginTx request.               *)
(***************************************************************************)
VARIABLES template, gas, gasDoubled, req, env, built,
          ins, cps, pc, nOut, cp, heap, buildReqs, tmpl, calls, resp

gasVars == <<template, gas, gasDoubled>>
buildVars == <<req, env, built>>
claimVars == <<ins, cps, pc, nOut, cp, heap, buildReqs, tmpl, calls, resp>>
vars == <<gasVars, buildVars, claimVars>>

(***************************************************************************)
(* Gas estimator: EstimateTxGas, estimateSignSize, estimateP2WSHGas.       *)
(* A value is carried with a flag, ovf, that records whether an int64      *)
(* operation on the way to it left the int64 range (and wrapped).          *)
(***************************************************************************)
Tr(v) == [v |-> v, ovf |-> FALSE]

AddT(a, b) ==
  LET e == BigAdd(a.v, b.v)
  IN  [v |-> Wrap64(e), ovf |-> a.ovf \/ b.ovf \/ ~InInt64(e)]

SubT(a, b) ==
  LET e == BigSub(a.v, b.v)
  IN  [v |-> Wrap64(e), ovf |-> a.ovf \/ b.ovf \/ ~InInt64(e)]

MulT(a, c) ==
  LET e == BigMul(a.v, c)
  IN  [v |-> Wrap64(e), ovf |-> a.ovf \/ ~InInt64(e)]

\* consensus.StorageGasRate and consensus.VMGasRate (package consensus)
StorageGasRate == 1
VMGasRate == 200

\* checked.MulInt64(a, b) for a factor b > 0: ok is false when a * b overflows
MulInt64(a, b) ==
  LET e == BigMul(a.v, b)
  IN  [ok |-> InInt64(e), v |-> [v |-> Wrap64(e), ovf |-> a.ovf]]

baseP2WPKHGas == 1419
baseP2WSHGas == 738
baseWitnessSize == 300
checkMultiSigKeyGas == 984
checkMultiSigQuorumGas == 72
checkMultiSigBaseGas == 63

\* the witness kinds the type switches of lines 229-234 and 247-252 select
SignatureKinds == {"SignatureWitness", "RawTxSigWitness"}

\* a sign size that counts the keys of a component where estimateSignSize
\* counts its quorum
RECURSIVE WitnessSignSizeOfKeys(_, _, _)
WitnessSignSizeOfKeys(ws, i, signSize) ==
  IF i > Len(ws) THEN signSize
  ELSE WitnessSignSizeOfKeys(ws, i + 1,
         IF ws[i].kind \in SignatureKinds
         THEN AddT(signSize, MulT(Tr(OfInt(ws[i].Keys)), baseWitnessSize))
         ELSE signSize)

\* the inner loop of estimateSignSize, from component i on
RECURSIVE WitnessSignSize(_, _, _)
WitnessSignSize(ws, i, signSize) ==
  IF i > Len(ws) THEN signSize
  ELSE WitnessSignSize(ws, i + 1,
         IF ws[i].kind \in SignatureKinds
         THEN AddT(signSize, MulT(Tr(ws[i].Quorum), baseWitnessSize))
         ELSE signSize)

\* the outer loop of estimateSignSize, from instruction i on; a nil
\* instruction faults at sigInst.WitnessComponents
RECURSIVE SignSizeFrom(_, _, _)
SignSizeFrom(sis, i, signSize) ==
  IF i > Len(sis) THEN [panic |-> FALSE, val |-> signSize]
  ELSE IF sis[i].isNil THEN [panic |-> TRUE, val |-> signSize]
  ELSE SignSizeFrom(sis, i + 1,
                    WitnessSignSize(sis[i].WitnessComponents, 1, signSize))

estimateSignSize(signingInstructions) ==
  SignSizeFrom(signingInstructions, 1, Tr(BigZero))

\* baseP2WSHGas + (984*len(t.Keys) - 72*int64(t.Quorum) - 63)
WitnessP2WSHGas(w) ==
  AddT(Tr(OfInt(baseP2WSHGas)),
       SubT(SubT(MulT(Tr(OfInt(w.Keys)), checkMultiSigKeyGas),
                 MulT(Tr(w.Quorum), checkMultiSigQuorumGas)),
            Tr(OfInt(checkMultiSigBaseGas))))

RECURSIVE P2WSHGasFrom(_, _, _)
P2WSHGasFrom(ws, i, P2WSHGas) ==
  IF i > Len(ws) THEN P2WSHGas
  ELSE P2WSHGasFrom(ws, i + 1,
         IF ws[i].kind \in SignatureKinds
         THEN AddT(P2WSHGas, WitnessP2WSHGas(ws[i]))
         ELSE P2WSHGas)

estimateP2WSHGas(sigInst) == P2WSHGasFrom(sigInst.WitnessComponents, 1, Tr(BigZero))

\* whether template.SigningInstructions[pos] (pos counted from 0) faults:
\* the index is out of range, or the instruction is nil
NoInstruction(t, pos) ==
  \/ pos >= Len(t.SigningInstructions)
  \/ t.SigningInstructions[pos + 1].isNil

\* the loop of lines 185-202 from input i (counted from 1) on.  acc holds the
\* two totals, each input's contribution and the instructions read.
RECURSIVE VMGasFrom(_, _, _)
VMGasFrom(t, i, acc) ==
  IF i > Len(t.Inputs) THEN acc
  ELSE LET in == t.Inputs[i]
       IN  IF in \in {"no_spend", "no_output", "other"}
           THEN VMGasFrom(t, i + 1,
                  [acc EXCEPT !.inputGas = Append(@, BigZero)])
           ELSE IF in = "P2WPKH"
           THEN VMGasFrom(t, i + 1,
                  [acc EXCEPT !.totalP2WPKHGas = AddT(@, Tr(OfInt(baseP2WPKHGas))),
                              !.inputGas = Append(@, OfInt(baseP2WPKHGas))])
           ELSE IF NoInstruction(t, i - 1)
           THEN [acc EXCEPT !.panic = TRUE]
           ELSE LET sigInst == t.SigningInstructions[i]
                    g == estimateP2WSHGas(sigInst)
                IN  VMGasFrom(t, i + 1,
                      [acc EXCEPT !.totalP2WSHGas = AddT(@, g),
                                  !.inputGas = Append(@, g.v),
                                  !.read = Append(@, [pos |-> i - 1,
                                                     Position |-> sigInst.Position])])

NoGas ==
  [outcome |-> "none", TotalNeu |-> BigZero, StorageNeu |-> BigZero,
   VMNeu |-> BigZero, signSize |-> BigZero, totalTxSizeGas |-> BigZero,
   totalP2WPKHGas |-> BigZero, totalP2WSHGas |-> BigZero, totalGas |-> BigZero,
   inputGas |-> <<>>, read |-> <<>>, ovf |-> FALSE]

\* EstimateTxGas(template); marshalOk is the outcome of TxData.MarshalText
EstimateTxGas(t, marshalOk) ==
  IF ~marshalOk THEN [NoGas EXCEPT !.outcome = "error"]
  ELSE
  LET baseTxSize == Tr(OfInt(t.baseTxSize))
      ss == estimateSignSize(t.SigningInstructions)
  IN
  IF ss.panic THEN [NoGas EXCEPT !.outcome = "panic"]
  ELSE
  LET signSize == ss.val
      m == MulInt64(AddT(baseTxSize, signSize), StorageGasRate)
  IN
  IF ~m.ok
  THEN [NoGas EXCEPT !.outcome = "error", !.signSize = signSize.v,
                     !.ovf = m.v.ovf]
  ELSE
  LET totalTxSizeGas == m.v
      vm == VMGasFrom(t, 1, [panic |-> FALSE, totalP2WPKHGas |-> Tr(BigZero),
                             totalP2WSHGas |-> Tr(BigZero), inputGas |-> <<>>,
                             read |-> <<>>])
  IN
  IF vm.panic THEN [NoGas EXCEPT !.outcome = "panic", !.read = vm.read]
  ELSE
  LET totalGas == AddT(AddT(totalTxSizeGas, vm.totalP2WPKHGas), vm.totalP2WSHGas)
      neu == MulT(totalGas, VMGasRate)
      roundingNeu == CeilQuotient(Float64(neu.v))
      estimateNeu == MulBaseRate64(roundingNeu)
      StorageNeu == MulT(totalTxSizeGas, VMGasRate)
      VMNeu == MulT(AddT(vm.totalP2WPKHGas, vm.totalP2WSHGas), VMGasRate)
  IN  [outcome |-> "ok",
       TotalNeu |-> estimateNeu,
       StorageNeu |-> StorageNeu.v,
       VMNeu |-> VMNeu.v,
       signSize |-> signSize.v,
       totalTxSizeGas |-> totalTxSizeGas.v,
       totalP2WPKHGas |-> vm.totalP2WPKHGas.v,
       totalP2WSHGas |-> vm.totalP2WSHGas.v,
       totalGas |-> totalGas.v,
       inputGas |-> vm.inputGas,
       read |-> vm.read,
       ovf |-> neu.ovf \/ StorageNeu.ovf \/ VMNeu.ovf
               \/ ~InInt64(MulBaseRate(roundingNeu))]

SeqsUpTo(S, n) == UNION {[1..k -> S] : k \in 0..n}

(***************************************************************************)
(* Template builder: actionDecoder, onlyHaveInputActions, buildSingle.     *)
(* An action of a request is a map; of it the builder reads the "type"     *)
(* entry, which may be missing or no string (isString false).              *)
(***************************************************************************)
\* the keys of actionDecoder's table, lines 33-40
ActionTags ==
  {"control_address", "control_program", "issue", "retire", "spend_account",
   "spend_account_unspent_output"}

\* tags the table does not hold
UnknownTags == {"spend_utxo", "transfer"}

\* strings.HasPrefix(actionType, "spend") on the tags above
HasPrefixSpend(actionType) ==
  actionType \in {"spend_account", "spend_account_unspent_output", "spend_utxo"}

\* the ok result of actionDecoder
actionDecoder(action) == action \in ActionTags

Min(S) == CHOOSE x \in S : \A y \in S : x <= y

\* an input check that compares the tag with the recognized input tags where
\* onlyHaveInputActions tests the prefix "spend"
onlyHaveRecognizedInputActions(actions) ==
  LET untyped == {i \in 1..Len(actions) : ~actions[i].isString}
      count   == Cardinality({i \in 1..Len(actions) :
                    actions[i].type \in {"spend_account",
                                         "spend_account_unspent_output", "issue"}})
  IN  IF untyped # {}
      THEN [err |-> TRUE, index |-> Min(untyped) - 1, ok |-> FALSE]
      ELSE [err |-> FALSE, index |-> 0 - 1, ok |-> count = Len(actions)]

\* onlyHaveInputActions(req): err with the index of the first action without
\* a string type, or whether every action is a spend or an issue
onlyHaveInputActions(actions) ==
  LET untyped == {i \in 1..Len(actions) : ~actions[i].isString}
      count   == Cardinality({i \in 1..Len(actions) :
                    HasPrefixSpend(actions[i].type) \/ actions[i].type = "issue"})
  IN  IF untyped # {}
      THEN [err |-> TRUE, index |-> Min(untyped) - 1, ok |-> FALSE]
      ELSE [err |-> FALSE, index |-> 0 - 1, ok |-> count = Len(actions)]

OkBuild ==
  [status |-> "ok", err |-> "", detail |-> "", index |-> 0 - 1,
   SigningInstructions |-> "set"]

Failed(err, detail, index) ==
  [status |-> "error", err |-> err, detail |-> detail, index |-> index,
   SigningInstructions |-> "none"]

\* the loop of lines 73-94 from action i (counted from 1) on; e.decodeFails
\* holds the indices of the actions whose decoder returns an error
RECURSIVE DecodeFrom(_, _, _)
DecodeFrom(actions, i, e) ==
  IF i > Len(actions) THEN OkBuild
  ELSE IF ~actions[i].isString
       THEN Failed("ErrBadActionType", "no action type provided", i - 1)
  ELSE IF ~actionDecoder(actions[i].type)
       THEN Failed("ErrBadActionType", "unknown action type", i - 1)
  ELSE IF (i - 1) \in e.decodeFails
       THEN Failed("ErrBadAction", "decode", i - 1)
  ELSE DecodeFrom(actions, i + 1, e)

\* buildSingle(ctx, req).  e is what the collaborators answer: aliasOk
\* (completeMissingIDs), decodeFails, and build, the result of
\* txbuilder.Build: a template with or without (nil) signing instructions,
\* ErrAction with the actions' errors, or another error.
buildSingle(actions, e) ==
  IF ~e.aliasOk THEN Failed("alias", "", 0 - 1)
  ELSE
  LET only == onlyHaveInputActions(actions)
  IN
  IF only.err
  THEN Failed("ErrBadActionType", "no action type provided", only.index)
  ELSE IF only.ok
  THEN Failed("ErrBadActionConstruction",
              "transaction contains only input actions and no output actions",
              0 - 1)
  ELSE
  LET decoded == DecodeFrom(actions, 1, e)
  IN
  IF decoded.status = "error" THEN decoded
  ELSE IF e.build = "ErrAction" THEN Failed("action root error", "actions", 0 - 1)
  ELSE IF e.build = "error" THEN Failed("build", "", 0 - 1)
  ELSE OkBuild  \* a nil SigningInstructions is replaced by an empty sequence

(***************************************************************************)
(* Peg-in claim: getPeginTxnOutputIndex and claimPeginTx.  A control       *)
(* program is a byte string, "" the nil or empty one (bytes.Equal does not *)
(* tell them apart).  Output indices count from 0 as in the source.        *)
(***************************************************************************)
NilProgram == ""

\* AccountMgr.GetPeginControlPrograms: the peg control program of a claim
\* script, nil for a script that has none
GetPeginControlPrograms(script) ==
  IF script = "s1" THEN "p1" ELSE IF script = "s2" THEN "p2" ELSE NilProgram

\* getPeginTxnOutputIndex(rawTx, controlProg)
getPeginTxnOutputIndex(rawTx, controlProg) ==
  LET matching == {i \in 1..Len(rawTx.Outputs) :
                     rawTx.Outputs[i].ControlProgram = controlProg}
  IN  IF matching # {} THEN Min(matching) - 1 ELSE 0

\* the loop of lines 299-306 from the i-th local control program on
RECURSIVE ScanFrom(_, _, _, _)
ScanFrom(rawTx, programs, i, n) ==
  IF i > Len(programs) THEN n
  ELSE LET controlProg == GetPeginControlPrograms(programs[i])
       IN  IF controlProg = NilProgram
           THEN ScanFrom(rawTx, programs, i + 1, n)
           ELSE ScanFrom(rawTx, programs, i + 1,
                         getPeginTxnOutputIndex(rawTx, controlProg))

\* lines 291-314: the target output index, or the error that ends the request
ResolveTarget(in, programs, listOk) ==
  LET n == IF in.ClaimScript = ""
           THEN ScanFrom(in.RawTx, programs, 1, Len(in.RawTx.Outputs))
           ELSE getPeginTxnOutputIndex(in.RawTx,
                                       GetPeginControlPrograms(in.ClaimScript))
  IN  IF in.ClaimScript = "" /\ ~listOk
      THEN [err |-> "ListControlProgram", nOut |-> Len(in.RawTx.Outputs)]
      ELSE IF n = Len(in.RawTx.Outputs)
      THEN [err |-> "Failed to find output", nOut |-> n]
      ELSE [err |-> "", nOut |-> n]

\* a Go map: assignment to a key and delete
MapSet(m, k, v) == [x \in DOMAIN m \cup {k} |-> IF x = k THEN v ELSE m[x]]

MapDelete(m, k) == [x \in DOMAIN m \ {k} |-> m[x]]

BTMAssetID == "ffffffffffffffffffffffffffffffffffffffffffffffffffffffffffffffff"

\* AccountMgr.CreateAddress(accountID, false).Address
NewAddress(accountID) == IF accountID = "acc1" THEN "addr1" ELSE "addr2"

\* lines 332-345: the one map act (at address 1 of the heap) and the
\* references to it appended before CreateAddress is called
ActBeforeAddress(accountID, amount) ==
  LET m0 == [type |-> "spend_account", asset_id |-> BTMAssetID, amount |-> 0,
             account_id |-> accountID]
      m1 == MapSet(m0, "amount", amount)
      m2 == MapSet(MapSet(m1, "type", "control_address"), "amount", amount)
  IN  [heap |-> <<m2>>, Actions |-> <<1, 1>>]

\* lines 350-352
ActAfterAddress(b, address) ==
  [heap |-> <<MapDelete(MapSet(b.heap[1], "address", address), "account_id")>>,
   Actions |-> Append(b.Actions, 1)]

\* the actions a holder of the references reads
Deref(h, actions) == [i \in 1..Len(actions) |-> h[actions[i]]]

\* what buildSingle reads of an action
TypeOf(m) ==
  IF "type" \in DOMAIN m THEN [isString |-> TRUE, type |-> m["type"]]
  ELSE [isString |-> FALSE, type |-> ""]

\* strconv.FormatUint(n, 10), as the sequence of its digits
RECURSIVE FormatUint(_)
FormatUint(n) ==
  IF n < 10 THEN <<n>> ELSE Append(FormatUint(n \div 10), n % 10)

\* lines 358-371
PeginWitnessStack(in, n) ==
  <<FormatUint(in.RawTx.Outputs[n + 1].Amount), "ParentGenesisBlockHash",
    in.ClaimScript, [json |-> in.RawTx], in.TxOutProof>>

NewErrorResponse(step, err) == [kind |-> "error", step |-> step, err |-> err]

NewSuccessResponse == [kind |-> "success", step |-> "", err |-> ""]

\* the handler left by a run-time panic: no response is written
Panic(step, err) == [kind |-> "panic", step |-> step, err |-> err]

NoResponse == [kind |-> "none", step |-> "", err |-> ""]

(***************************************************************************)
(* Each specification below runs one handler; the state of the other       *)
(* handlers is idle.                                                       *)
(***************************************************************************)
IdleEnv == [aliasOk |-> TRUE, decodeFails |-> {}, build |-> "template"]

NotBuilt ==
  [status |-> "none", err |-> "", detail |-> "", index |-> 0 - 1,
   SigningInstructions |-> "none"]

NoTemplate == [status |-> "none", Inputs |-> <<>>]

IdleGas ==
  /\ template = [baseTxSize |-> 0, SigningInstructions |-> <<>>, Inputs |-> <<>>]
  /\ gas = NoGas
  /\ gasDoubled = NoGas

IdleBuild ==
  /\ req = <<>>
  /\ env = IdleEnv
  /\ built = NotBuilt

IdleClaim ==
  /\ ins = [ClaimScript |-> "", RawTx |-> [Outputs |-> <<>>], TxOutProof |-> ""]
  /\ cps = <<>>
  /\ pc = "done"
  /\ nOut = 0
  /\ cp = ""
  /\ heap = <<>>
  /\ buildReqs = <<>>
  /\ tmpl = NoTemplate
  /\ calls = <<>>
  /\ resp = NoResponse

(***************************************************************************)
(* Build requests handed to buildSingle.                                   *)
(***************************************************************************)
MaxActions == 3

Untyped == [isString |-> FALSE, type |-> ""]

RequestActions ==
  {Untyped} \cup [isString : {TRUE}, type : ActionTags \cup UnknownTags]

BuildOutcomes == {"template", "template without instructions", "ErrAction", "error"}

Environments(n) ==
  [aliasOk : BOOLEAN,
   decodeFails : {{}} \cup {{i} : i \in 0..(n - 1)},
   build : BuildOutcomes]

InitBuild ==
  /\ req \in SeqsUpTo(RequestActions, MaxActions)
  /\ env = IdleEnv
  /\ built = NotBuilt
  /\ IdleGas
  /\ IdleClaim

\* POST /build-transaction
Build ==
  /\ built.status = "none"
  /\ \E e \in Environments(Len(req)) :
       /\ env' = e
       /\ built' = buildSingle(req, e)
  /\ UNCHANGED <<req, gasVars, claimVars>>

NextBuild == Build

SpecBuild == InitBuild /\ [][NextBuild]_vars

(***************************************************************************)
(* Claims about the template builder (checked under SpecBuild).            *)
(***************************************************************************)
AllTyped == \A i \in 1..Len(req) : req[i].isString

Unrecognized == {i \in 1..Len(req) : ~actionDecoder(req[i].type)}

EarlierDecode == \A i \in env.decodeFails : i >= Min(Unrecognized) - 1

OnlyInputTags ==
  \A i \in 1..Len(req) : HasPrefixSpend(req[i].type) \/ req[i].type = "issue"

NamesFirstUnrecognized ==
  /\ built.status = "error"
  /\ built.err = "ErrBadActionType"
  /\ built.detail = "unknown action type"
  /\ built.index = Min(Unrecognized) - 1

\* C4 as stated: when every action has a string type and some tag is not
\* one of the six recognized ones, buildSingle (alias resolution succeeded,
\* earlier actions decode) fails with ErrBadActionType naming the index of
\* the first unrecognized tag, also when the request holds only tags that
\* begin with "spend".
C4_UnknownTagIsBadActionType ==
  (built.status # "none" /\ env.aliasOk /\ AllTyped /\ Unrecognized # {}
     /\ EarlierDecode)
    => NamesFirstUnrecognized

\* C4 amended: the same, for requests in which not every tag begins with
\* "spend" or is "issue"; a request of only such tags fails with
\* ErrBadActionConstruction before any tag is looked up.
C4_UnknownTagAfterInputCheck ==
  (built.status # "none" /\ env.aliasOk /\ AllTyped /\ Unrecognized # {}
     /\ EarlierDecode)
    => IF OnlyInputTags
       THEN built.status = "error" /\ built.err = "ErrBadActionConstruction"
       ELSE NamesFirstUnrecognized

\* a request whose second action has an unrecognized "spend" tag, behind a
\* recognized output action, was refused with ErrBadActionType on action 1
C4_Witness ==
  /\ built.status = "error" /\ built.err = "ErrBadActionType" /\ built.index = 1
  /\ env.aliasOk
  /\ Len(req) = 3
  /\ req[1].type = "control_address"
  /\ req[2].type = "spend_utxo"
  /\ req[3].type = "transfer"

(***************************************************************************)
(* Templates handed to EstimateTxGas.                                      *)
(***************************************************************************)
MaxSigInst == 2
MaxInputs == 2

\* len(data) of line 169: MarshalText is the hex text of the serialized
\* transaction
BaseTxSizes == {202}

\* the smallest quorum with quorum * baseWitnessSize beyond the int64 range
QuorumWrapsSignSize == BigAdd(BigDiv(MaxInt64, baseWitnessSize), BigOne)

\* quorum * baseWitnessSize is an int64, and so is the storage gas, but
\* totalGas * VMGasRate is not
QuorumWrapsNeu == BigDiv(MaxInt64, 2 * baseWitnessSize)

\* 150000000000001: every int64 operation stays in range, and
\* totalGas * VMGasRate is beyond 2^53, where float64 is not exact
QuorumLosesPrecision ==
  BigAdd(BigMul(BigMul(BigMul(OfInt(1500), 10000), 10000), 1000), BigOne)

Witness(kind, keys, quorum) == [kind |-> kind, Keys |-> keys, Quorum |-> quorum]

Instruction(position, witnesses) ==
  [isNil |-> FALSE, Position |-> position, WitnessComponents |-> witnesses]

NilInstruction == [isNil |-> TRUE, Position |-> 0, WitnessComponents |-> <<>>]

\* the signing instructions a template is made of: a nil entry, an empty
\* one, single-key and multi-key witnesses, a quorum above the key count,
\* quorums at the edges of int64 and of float64, and a data witness
Instructions ==
  { NilInstruction,
    Instruction(0, <<>>),
    Instruction(0, <<Witness("SignatureWitness", 3, OfInt(2))>>),
    Instruction(1, <<Witness("SignatureWitness", 3, OfInt(2)),
                     Witness("RawTxSigWitness", 1, OfInt(1))>>),
    Instruction(1, <<Witness("SignatureWitness", 0, OfInt(10))>>),
    Instruction(0, <<Witness("RawTxSigWitness", 1, QuorumWrapsSignSize)>>),
    Instruction(0, <<Witness("RawTxSigWitness", 1, QuorumWrapsNeu)>>),
    Instruction(1, <<Witness("SignatureWitness", 1, QuorumLosesPrecision),
                     Witness("DataWitness", 0, BigZero)>>) }

\* what lines 186-198 find for an input: Spend fails, Output fails, or the
\* spent output's control program is P2WPKH, P2WSH or neither
InputKinds == {"no_spend", "no_output", "P2WPKH", "P2WSH", "other"}

Templates ==
  [baseTxSize : BaseTxSizes,
   SigningInstructions : SeqsUpTo(Instructions, MaxSigInst),
   Inputs : SeqsUpTo(InputKinds, MaxInputs)]

\* the template with every witness quorum doubled; it exists when every
\* doubled quorum is still a Go int
DoubleWitness(w) ==
  IF w.kind \in SignatureKinds THEN [w EXCEPT !.Quorum = BigMul(@, 2)] ELSE w

DoubleInstruction(si) ==
  [si EXCEPT !.WitnessComponents =
     [k \in 1..Len(@) |-> DoubleWitness(@[k])]]

Doubled(t) ==
  [t EXCEPT !.SigningInstructions =
     [k \in 1..Len(@) |-> DoubleInstruction(@[k])]]

CanDouble(t) ==
  \A k \in 1..Len(t.SigningInstructions) :
    \A j \in 1..Len(t.SigningInstructions[k].WitnessComponents) :
      InInt64(DoubleWitness(t.SigningInstructions[k].WitnessComponents[j]).Quorum)

InitGas ==
  /\ template \in Templates
  /\ gas = NoGas
  /\ gasDoubled = NoGas
  /\ IdleBuild
  /\ IdleClaim

\* POST /estimate-transaction-gas on the template
Estimate ==
  /\ gas.outcome = "none"
  /\ \E marshalOk \in BOOLEAN : gas' = EstimateTxGas(template, marshalOk)
  /\ UNCHANGED <<template, gasDoubled, buildVars, claimVars>>

\* a second request, for the same template with every quorum doubled
EstimateDoubled ==
  /\ gas.outcome = "ok"
  /\ gasDoubled.outcome = "none"
  /\ CanDouble(template)
  /\ \E marshalOk \in BOOLEAN :
       gasDoubled' = EstimateTxGas(Doubled(template), marshalOk)
  /\ UNCHANGED <<template, gas, buildVars, claimVars>>

NextGas == Estimate \/ EstimateDoubled

SpecGas == InitGas /\ [][NextGas]_vars

(***************************************************************************)
(* Claims about the gas estimator (checked under SpecGas).                 *)
(***************************************************************************)
Responded(g) == g.outcome = "ok"

\* C5: every arithmetic step of the fee computation is overflow-checked:
\* when an intermediate value leaves the int64 range EstimateTxGas returns an
\* error, never a response computed from a wrapped value.
C5_OverflowIsAnError == Responded(gas) => ~gas.ovf

IsBillingMultiple(a) == MulBaseRate(DivBaseRate(BigAbs(a))) = BigAbs(a)

\* C6: in a response TotalNeu is the smallest multiple of 100000 that is
\* >= totalGas * VMGasRate (totalGas = storage gas + VM gas), StorageNeu and
\* VMNeu are the unrounded products, and
\* StorageNeu + VMNeu <= TotalNeu < StorageNeu + VMNeu + 100000.
C6_TotalNeuIsCeiling ==
  Responded(gas) =>
    LET vmGas    == BigAdd(gas.totalP2WPKHGas, gas.totalP2WSHGas)
        totalGas == BigAdd(gas.totalTxSizeGas, vmGas)
        exactNeu == BigMul(totalGas, VMGasRate)
        sum      == BigAdd(gas.StorageNeu, gas.VMNeu)
    IN  /\ IsBillingMultiple(gas.TotalNeu)
        /\ BigLeq(exactNeu, gas.TotalNeu)
        /\ BigLess(gas.TotalNeu, BigAdd(exactNeu, OfInt(defaultBaseRate)))
        /\ gas.StorageNeu = BigMul(gas.totalTxSizeGas, VMGasRate)
        /\ gas.VMNeu = BigMul(vmGas, VMGasRate)
        /\ BigLeq(sum, gas.TotalNeu)
        /\ BigLess(gas.TotalNeu, BigAdd(sum, OfInt(defaultBaseRate)))

C8_NonNegative ==
  Responded(gas) =>
    /\ ~IsNeg(gas.signSize)
    /\ ~IsNeg(gas.totalTxSizeGas)
    /\ \A i \in 1..Len(gas.inputGas) : ~IsNeg(gas.inputGas[i])
    /\ ~IsNeg(gas.TotalNeu)
    /\ ~IsNeg(gas.StorageNeu)
    /\ ~IsNeg(gas.VMNeu)

\* C10: EstimateTxGas never faults, and the signing instruction it reads for
\* a P2WSH input at position pos exists and is that input's (its Position is
\* pos).
C10_NeverFaults ==
  /\ gas.outcome # "panic"
  /\ \A i \in 1..Len(gas.read) : gas.read[i].Position = gas.read[i].pos

(***************************************************************************)
(* Peg-in claim requests.                                                  *)
(***************************************************************************)
MaxOutputs == 2
MaxPrograms == 2
MaxTemplateInputs == 2

ClaimScripts == {"s1", "s2", "s3"}

OutputPrograms == {NilProgram, "p1", "p2", "px"}

Amounts == {7, 12}

Accounts == {"acc1", "acc2"}

TxOutputs == [ControlProgram : OutputPrograms, Amount : Amounts]

UnsignedInput == [Peginwitness |-> <<>>, IsPegin |-> FALSE]

Init ==
  /\ ins \in [ClaimScript : {""} \cup ClaimScripts,
              RawTx : [Outputs : SeqsUpTo(TxOutputs, MaxOutputs)],
              TxOutProof : {"proof"}]
  /\ cps \in SeqsUpTo(ClaimScripts, MaxPrograms)
  /\ pc = "resolve"
  /\ nOut = Len(ins.RawTx.Outputs)
  /\ cp = ""
  /\ heap = <<>>
  /\ buildReqs = <<>>
  /\ tmpl = NoTemplate
  /\ calls = <<>>
  /\ resp = NoResponse
  /\ IdleGas
  /\ IdleBuild

\* the request ends with an error response
Fail(step, err) ==
  /\ resp' = NewErrorResponse(step, err)
  /\ pc' = "done"

\* lines 291-314
Resolve ==
  /\ pc = "resolve"
  /\ calls' = Append(calls, "resolve")
  /\ \E listOk \in BOOLEAN :
       LET r == ResolveTarget(ins, cps, listOk)
       IN  /\ nOut' = r.nOut
           /\ IF r.err # "" THEN Fail("resolve", r.err)
              ELSE pc' = "lookup" /\ UNCHANGED resp
  /\ UNCHANGED <<ins, cps, cp, heap, buildReqs, tmpl, gasVars, buildVars>>

\* lines 318-329: DB.Get of the contract of the claim script, json.Unmarshal
Lookup ==
  /\ pc = "lookup"
  /\ calls' = Append(calls, "lookup")
  /\ \/ Fail("lookup", "Failed to find control program through claim script")
        /\ UNCHANGED cp
     \/ Fail("lookup", "Failed on unmarshal control program")
        /\ UNCHANGED cp
     \/ \E accountID \in Accounts :
          /\ cp' = accountID
          /\ pc' = "build"
          /\ UNCHANGED resp
  /\ UNCHANGED <<ins, cps, nOut, heap, buildReqs, tmpl, gasVars, buildVars>>

\* lines 332-356: the build request, CreateAddress, buildSingle
BuildClaim ==
  /\ pc = "build"
  /\ calls' = Append(calls, "build")
  /\ LET before == ActBeforeAddress(cp, ins.RawTx.Outputs[nOut + 1].Amount)
         after  == ActAfterAddress(before, NewAddress(cp))
         actions == Deref(after.heap, after.Actions)
     IN  \/ /\ heap' = before.heap
            /\ buildReqs' = before.Actions
            /\ Fail("build", "CreateAddress")
            /\ UNCHANGED tmpl
         \/ /\ heap' = after.heap
            /\ buildReqs' = after.Actions
            /\ \E e \in Environments(Len(actions)), n \in 0..MaxTemplateInputs :
                 LET b == buildSingle([i \in 1..Len(actions) |-> TypeOf(actions[i])], e)
                 IN  IF b.status = "error"
                     THEN Fail("build", b.err) /\ UNCHANGED tmpl
                     ELSE /\ tmpl' = [status |-> "built",
                                      Inputs |-> [i \in 1..n |-> UnsignedInput]]
                          /\ pc' = "attach"
                          /\ UNCHANGED resp
  /\ UNCHANGED <<ins, cps, nOut, cp, gasVars, buildVars>>

\* lines 358-375: tmpl.Transaction.Inputs[0], an index out of range on a
\* template without inputs
Attach ==
  /\ pc = "attach"
  /\ calls' = Append(calls, "attach")
  /\ IF Len(tmpl.Inputs) = 0
     THEN /\ resp' = Panic("attach", "index out of range")
          /\ pc' = "done"
          /\ UNCHANGED tmpl
     ELSE /\ tmpl' = [tmpl EXCEPT !.Inputs[1] =
                        [Peginwitness |-> PeginWitnessStack(ins, nOut),
                         IsPegin |-> TRUE]]
          /\ pc' = "sign"
          /\ UNCHANGED resp
  /\ UNCHANGED <<ins, cps, nOut, cp, heap, buildReqs, gasVars, buildVars>>

\* lines 378-381: txbuilder.Sign
Sign ==
  /\ pc = "sign"
  /\ calls' = Append(calls, "sign")
  /\ \/ Fail("sign", "Sign")
     \/ pc' = "finalize" /\ UNCHANGED resp
  /\ UNCHANGED <<ins, cps, nOut, cp, heap, buildReqs, tmpl, gasVars, buildVars>>

\* lines 384-389: txbuilder.FinalizeTx on the parent transaction
Finalize ==
  /\ pc = "finalize"
  /\ calls' = Append(calls, "finalize")
  /\ \/ Fail("finalize", "FinalizeTx")
     \/ resp' = NewSuccessResponse /\ pc' = "done"
  /\ UNCHANGED <<ins, cps, nOut, cp, heap, buildReqs, tmpl, gasVars, buildVars>>

Next == Resolve \/ Lookup \/ BuildClaim \/ Attach \/ Sign \/ Finalize

Spec == Init /\ [][Next]_vars

(***************************************************************************)
(* Claims about claimPeginTx (checked under Spec).                         *)
(***************************************************************************)
Outputs == ins.RawTx.Outputs

Matches(controlProg) ==
  \E i \in 1..Len(Outputs) : Outputs[i].ControlProgram = controlProg

Resolved == Len(calls) >= 1

\* C1: with an explicit claim script whose peg control program is the
\* control program of no output of the parent transaction, the request
\* fails with the "failed to find output" error, runs no later step and
\* uses no output as the target, whatever the number of outputs.
C1_NoMatchIsNotFound ==
  (Resolved /\ ins.ClaimScript # ""
     /\ ~Matches(GetPeginControlPrograms(ins.ClaimScript)))
    => /\ resp.kind = "error"
       /\ resp.err = "Failed to find output"
       /\ calls = <<"resolve">>
       /\ nOut = Len(Outputs)

\* the local control programs that map to a peg program matching an output
Qualifying ==
  {i \in 1..Len(cps) :
     /\ GetPeginControlPrograms(cps[i]) # NilProgram
     /\ Matches(GetPeginControlPrograms(cps[i]))}

Max(S) == CHOOSE x \in S : \A y \in S : y <= x

LastMatch ==
  IF Qualifying = {} THEN Len(Outputs)
  ELSE Min({i \in 1..Len(Outputs) :
              Outputs[i].ControlProgram
                = GetPeginControlPrograms(cps[Max(Qualifying)])}) - 1

\* C2: without a claim script, after the scan the target index is the index
\* of the output matched by the last local control program that maps to a
\* peg program and matches an output; programs that map to none or match
\* none leave the target as it was.
C2_LastMatchWins ==
  (Resolved /\ ins.ClaimScript = "" /\ resp.err # "ListControlProgram")
    => nOut = LastMatch

ClaimedAmount == Outputs[nOut + 1].Amount

ExpectedActions ==
  <<[type |-> "spend_account", asset_id |-> BTMAssetID, amount |-> 0,
     account_id |-> cp],
    [type |-> "spend_account", asset_id |-> BTMAssetID,
     amount |-> ClaimedAmount, account_id |-> cp],
    [type |-> "control_address", asset_id |-> BTMAssetID,
     amount |-> ClaimedAmount, address |-> NewAddress(cp)]>>

\* C3: the request handed to buildSingle holds three distinct actions: a
\* spend_account of amount 0 of the account, a spend_account of the claimed
\* amount of the account, a control_address of the claimed amount to the
\* new address; later updates do not change the earlier entries.
C3_ThreeDistinctActions ==
  (Len(buildReqs) = 3) => (Deref(heap, buildReqs) = ExpectedActions)

StepOrder == <<"resolve", "lookup", "build", "attach", "sign", "finalize">>

IsPrefix(s, t) == Len(s) <= Len(t) /\ s = SubSeq(t, 1, Len(s))

\* C9: the steps run in the order resolve, lookup, build, attach, sign,
\* finalize, each at most once; a step that fails ends the request with an
\* error response and nothing runs after it; finalize runs only after a
\* successful sign, and a transaction id is returned only after a
\* successful finalize.
C9_StepsInOrder ==
  /\ IsPrefix(calls, StepOrder)
  /\ (pc = "done") => (resp.kind \in {"error", "success"})
  /\ (resp.kind = "error") => (pc = "done" /\ calls[Len(calls)] = resp.step)
  /\ (resp.kind = "success") => (calls = StepOrder)
  /\ (Len(calls) >= 6) => (tmpl.status = "built" /\ tmpl.Inputs[1].IsPegin)

====
